---------------------------- MODULE Spec2Model ----------------------------
(***************************************************************************)
(* Model of pipe_in_json.py: the three processors (ExchangeProcessor,      *)
(* ValidationProcessor, SplittingProcessor), the shared is_valid_uuid and  *)
(* the runner loop of __main__.  Two specifications:                       *)
(*   Spec       - the __main__ run over the pipeline                       *)
(*                [exchanger, validator, splitter] built with defaults;    *)
(*   SpecStages - one processor built with chosen parameters and driven    *)
(*                call by call, the way test_processors.py drives it.      *)
(*                                                                         *)
(* Python strings are sequences of one-character strings, so that the      *)
(* string operations the code performs (lower, format, the parsing done    *)
(* by uuid.UUID) are computed and not assumed.  JSON values are tagged     *)
(* records; a JSON object (a dict) is a function from keys to values.      *)
(***************************************************************************)
EXTENDS Integers, Sequences, FiniteSets, TLC

(* ----------------------------- bounds --------------------------------- *)
\* Most records the source yields in one run of __main__.
MaxRecords == 2

\* Most process calls made on the processor under test in SpecStages.
MaxCalls == 2

(* ------------------------- strings and values -------------------------- *)
K_linkid == <<"l", "i", "n", "k", "i", "d">>

K_type == <<"t", "y", "p", "e">>

K_convvalue == <<"c", "o", "n", "v", "v", "a", "l", "u", "e">>

K_convvalueunit == <<"c", "o", "n", "v", "v", "a", "l", "u", "e", "u", "n", "i", "t">>

K_convusdvalue == <<"c", "o", "n", "v", "u", "s", "d", "v", "a", "l", "u", "e">>

USD == <<"U", "S", "D">>

DKK == <<"D", "K", "K">>

JPY == <<"J", "P", "Y">>

EUR == <<"E", "U", "R">>

\* A currency code the rate table does not hold.
XXX == <<"X", "X", "X">>

Click == <<"c", "l", "i", "c", "k">>

View == <<"v", "i", "e", "w">>

DEFAULT_ERRORS_OUTPUT == <<".", "/", "d", "e", "a", "d", "l", "e", "t", "t", "e", "r", "s", ".", "j", "s", "o", "n">>

DEFAULT_OUTPUT_PATH == <<".", "/", "{", "t", "y", "p", "e", "}", ".", "j", "s", "o", "n">>

\* The linkid of test_ValidationProcessor_correct.
GoodUuid == <<"9", "a", "7", "c", "6", "e", "3", "a", "-", "0", "b", "3", "8", "-", "4", "8", "8", "3", "-", "b", "2", "1", "a", "-", "2", "d", "a", "e", "b", "7", "0", "4", "b", "5", "9", "5">>

\* The linkid of test_ValidationProcessor_incorrect (wrong length).
BadUuid == <<"i", "n", "c", "o", "r", "r", "e", "c", "t", "-", "u", "u", "i", "d", "-", "b", "2", "1", "a", "-", "2", "d", "a", "e", "b", "7", "0", "4", "b", "5", "9", "5">>

\* Right length, one character that is no hexadecimal digit.
NonHexUuid == <<"9", "a", "7", "c", "6", "e", "3", "a", "-", "0", "b", "3", "8", "-", "4", "8", "8", "3", "-", "b", "2", "1", "a", "-", "2", "d", "a", "e", "b", "7", "0", "4", "b", "5", "9", "z">>

\* JSON null / Python None.
Null == [t |-> "null"]

\* A JSON number.
Num(n) == [t |-> "num", n |-> n]

\* A JSON string.
Str(s) == [t |-> "str", s |-> s]

\* Python False, the sentinel is_valid_uuid returns.
False == [t |-> "bool", b |-> FALSE]

\* A uuid.UUID object, held as its 32 hexadecimal digits.
UuidObject(hex) == [t |-> "uuid", hex |-> hex]

\* Python truth value of a value: None, 0, "" and False are falsy.
Truthy(v) ==
    CASE v.t = "null" -> FALSE
      [] v.t = "num" -> v.n # 0
      [] v.t = "str" -> v.s # <<>>
      [] v.t = "bool" -> v.b
      [] OTHER -> TRUE

\* dict.get(key, None)
Get(data, key) == IF key \in DOMAIN data THEN data[key] ELSE Null

\* data[key] = v on a dict
SetItem(data, key, v) ==
    [f \in DOMAIN data \cup {key} |-> IF f = key THEN v ELSE data[f]]

LowerChar(c) ==
    CASE c = "A" -> "a" [] c = "B" -> "b" [] c = "C" -> "c" [] c = "D" -> "d"
      [] c = "E" -> "e" [] c = "F" -> "f" [] c = "G" -> "g" [] c = "H" -> "h"
      [] c = "I" -> "i" [] c = "J" -> "j" [] c = "K" -> "k" [] c = "L" -> "l"
      [] c = "M" -> "m" [] c = "N" -> "n" [] c = "O" -> "o" [] c = "P" -> "p"
      [] c = "Q" -> "q" [] c = "R" -> "r" [] c = "S" -> "s" [] c = "T" -> "t"
      [] c = "U" -> "u" [] c = "V" -> "v" [] c = "W" -> "w" [] c = "X" -> "x"
      [] c = "Y" -> "y" [] c = "Z" -> "z" [] OTHER -> c

\* str.lower()
Lower(s) == [i \in 1..Len(s) |-> LowerChar(s[i])]

\* str.replace(old, new): leftmost non-overlapping occurrences.
RECURSIVE Replace(_, _, _)
Replace(s, old, new) ==
    IF Len(s) < Len(old) THEN s
    ELSE IF SubSeq(s, 1, Len(old)) = old
         THEN new \o Replace(SubSeq(s, Len(old) + 1, Len(s)), old, new)
         ELSE <<Head(s)>> \o Replace(Tail(s), old, new)

\* str.strip(chars)
RECURSIVE Strip(_, _)
Strip(s, chars) ==
    IF s = <<>> THEN s
    ELSE IF Head(s) \in chars THEN Strip(Tail(s), chars)
    ELSE IF s[Len(s)] \in chars THEN Strip(SubSeq(s, 1, Len(s) - 1), chars)
    ELSE s

HexDigits ==
    {"0", "1", "2", "3", "4", "5", "6", "7", "8", "9",
     "a", "b", "c", "d", "e", "f", "A", "B", "C", "D", "E", "F"}

(* ------------------------------ sinks ---------------------------------- *)
\* jsonlines.open(path, mode='a'): a writer on path.  lines holds what this
\* writer appended, each line with the number of the record it came from;
\* closes counts the close() calls made on the writer.
OpenWriter(path) == [path |-> path, lines |-> <<>>, closes |-> 0]

\* writer.write(data): appends a snapshot of the record.
WriterWrite(w, k, data) ==
    [w EXCEPT !.lines = Append(@, [rec |-> k, line |-> data])]

WriterClose(w) == [w EXCEPT !.closes = @ + 1]

(* ------------------------------ Processor ------------------------------ *)
\* uuid.UUID(hex): the value for a well-formed text, "ValueError" otherwise.
\* urn:/uuid: prefixes, braces and hyphens are dropped, 32 characters must
\* remain and int(hex, 16) must accept them (plain hexadecimal digits here;
\* the sign, 0x prefix and underscores int() also reads occur in no input).
UUID(hex) ==
    LET h1 == Replace(Replace(hex, <<"u", "r", "n", ":">>, <<>>),
                      <<"u", "u", "i", "d", ":">>, <<>>)
        h2 == Replace(Strip(h1, {"{", "}"}), <<"-">>, <<>>)
    IN IF Len(h2) # 32 THEN [raised |-> "ValueError", value |-> Null]
       ELSE IF \A i \in 1..Len(h2) : h2[i] \in HexDigits
            THEN [raised |-> "none", value |-> UuidObject(Lower(h2))]
            ELSE [raised |-> "ValueError", value |-> Null]

\* Processor.is_valid_uuid: only ValueError is caught.  A number has no
\* replace method (AttributeError); None is rejected with TypeError.
is_valid_uuid(uuid_to_test) ==
    IF uuid_to_test.t = "str"
    THEN LET r == UUID(uuid_to_test.s)
         IN IF r.raised = "ValueError"
            THEN [raised |-> "none", value |-> False]
            ELSE r
    ELSE IF uuid_to_test.t = "null"
         THEN [raised |-> "TypeError", value |-> Null]
         ELSE [raised |-> "AttributeError", value |-> Null]


(* -------------------------- ExchangeProcessor -------------------------- *)
\* ExchangeProcessor.get_rates: the table fetched from EXCHANGE_RATES,
\* relative to USD; the amounts here are in units of 1/10000.
get_rates == (USD :> 10000) @@ (DKK :> 1500) @@ (JPY :> 91) @@ (EUR :> 11000)

\* The key without lower(): 'conv{}value'.format(currency)
currency_key_of_NoLower(currency) ==
    <<"c", "o", "n", "v">> \o currency \o <<"v", "a", "l", "u", "e">>

\* 'conv{}value'.format(currency.lower())
currency_key_of(currency) ==
    <<"c", "o", "n", "v">> \o Lower(currency) \o <<"v", "a", "l", "u", "e">>

\* ExchangeProcessor.__init__
ExchangeProcessor(currency) ==
    [ex_rates |-> get_rates,
     default_currency |-> currency,
     currency_key |-> currency_key_of(currency)]

\* The guard testing convvalue against None in place of its truth value.
ExchangeApplies_NotNone(self, data) ==
    /\ Get(data, K_convvalue) # Null
    /\ Get(data, K_convvalueunit) # Str(self.default_currency)

\* The guard of ExchangeProcessor.process.
ExchangeApplies(self, data) ==
    /\ Truthy(Get(data, K_convvalue))
    /\ Get(data, K_convvalueunit) # Str(self.default_currency)

\* self.ex_rates[data['convvalueunit']] * data['convvalue']
ExchangeValue(self, data) ==
    Num(self.ex_rates[data[K_convvalueunit].s] * data[K_convvalue].n)

\* ExchangeProcessor.process(data): the exception raised and data afterwards.
ExchangeProcessor_process(self, data) ==
    IF ExchangeApplies(self, data)
    THEN IF \/ K_convvalueunit \notin DOMAIN data
            \/ data[K_convvalueunit].t # "str"
            \/ data[K_convvalueunit].s \notin DOMAIN self.ex_rates
         THEN [raised |-> "KeyError", data |-> data]
         ELSE IF data[K_convvalue].t # "num"
              THEN [raised |-> "TypeError", data |-> data]
              ELSE [raised |-> "none",
                    data |-> SetItem(data, self.currency_key,
                                     ExchangeValue(self, data))]
    ELSE [raised |-> "none", data |-> data]

(* -------------------------- ValidationProcessor ------------------------ *)
\* ValidationProcessor.__init__
ValidationProcessor(errors_output) ==
    [errors_output |-> errors_output,
     errors_logger |-> OpenWriter(errors_output)]

\* ValidationProcessor.process(data); k numbers the record.
ValidationProcessor_process(self, data, k) ==
    LET written == [self EXCEPT
                      !.errors_logger = WriterWrite(@, k, data)]
    IN IF ~Truthy(Get(data, K_linkid))
       THEN [raised |-> "none", self |-> written]
       ELSE LET v == is_valid_uuid(data[K_linkid])
            IN IF v.raised # "none"
               THEN [raised |-> v.raised, self |-> self]
               ELSE IF ~Truthy(v.value)
                    THEN [raised |-> "none", self |-> written]
                    ELSE [raised |-> "none", self |-> self]

\* ValidationProcessor.close
ValidationProcessor_close(self) ==
    [self EXCEPT !.errors_logger = WriterClose(@)]

(* -------------------------- SplittingProcessor ------------------------- *)
\* SplittingProcessor.__init__
SplittingProcessor(output_path, strict_uuid) ==
    [output_path |-> output_path,
     _cached_writers |-> <<>>,
     strict_uuid |-> strict_uuid]

\* self.output_path.format(type=writer_type), for a string writer_type
FormatPath(output_path, writer_type) ==
    Replace(output_path, <<"{", "t", "y", "p", "e", "}">>, writer_type.s)

\* SplittingProcessor.get_writer: the processor afterwards (the cache may
\* have grown) and the paths it opened.
get_writer(self, writer_type) ==
    IF writer_type \in DOMAIN self._cached_writers
    THEN [self |-> self, opened |-> <<>>]
    ELSE LET path == FormatPath(self.output_path, writer_type)
         IN [self |-> [self EXCEPT !._cached_writers =
                         SetItem(@, writer_type, OpenWriter(path))],
             opened |-> <<path>>]

\* self.get_writer(data['type']).write(data)
SplittingWrite(self, data, k) ==
    LET g == get_writer(self, data[K_type])
    IN [raised |-> "none",
        self |-> [g.self EXCEPT !._cached_writers[data[K_type]] =
                    WriterWrite(@, k, data)],
        opened |-> g.opened]

\* SplittingProcessor.process that checks the linkid whatever strict_uuid is.
SplittingProcessor_process_AlwaysStrict(self, data, k) ==
    LET skip == [raised |-> "none", self |-> self, opened |-> <<>>]
    IN IF Truthy(Get(data, K_type))
       THEN IF ~Truthy(Get(data, K_linkid))
            THEN skip
            ELSE LET v == is_valid_uuid(data[K_linkid])
                 IN IF v.raised # "none"
                    THEN [skip EXCEPT !.raised = v.raised]
                    ELSE IF Truthy(v.value)
                         THEN SplittingWrite(self, data, k)
                         ELSE skip
       ELSE skip

\* SplittingProcessor.process(data); k numbers the record.
SplittingProcessor_process(self, data, k) ==
    LET skip == [raised |-> "none", self |-> self, opened |-> <<>>]
    IN IF Truthy(Get(data, K_type))
       THEN IF ~self.strict_uuid
            THEN SplittingWrite(self, data, k)
            ELSE IF ~Truthy(Get(data, K_linkid))
                 THEN skip
                 ELSE LET v == is_valid_uuid(data[K_linkid])
                      IN IF v.raised # "none"
                         THEN [skip EXCEPT !.raised = v.raised]
                         ELSE IF Truthy(v.value)
                              THEN SplittingWrite(self, data, k)
                              ELSE skip
       ELSE skip

\* SplittingProcessor.close that leaves the cached writers open.
SplittingProcessor_close_Nothing(self) == self

\* SplittingProcessor.close: every key of the cache, the writer under it.
SplittingProcessor_close(self) ==
    [self EXCEPT !._cached_writers =
        [writer \in DOMAIN self._cached_writers |->
            WriterClose(self._cached_writers[writer])]]

(* ------------------------------- state --------------------------------- *)
VARIABLES
    exchanger,     \* the ExchangeProcessor object, Null when not built
    validator,     \* the ValidationProcessor object, Null when not built
    splitter,      \* the SplittingProcessor object, Null when not built
    raw_data,      \* the record in hand (mutated in place by the stages)
    rows_counter,  \* __main__: rows_counter
    pulled,        \* records the source has yielded so far
    pipe,          \* position in pipelines (the processor under test in SpecStages)
    pc,            \* where the run is
    calls,         \* trace: every pull, process, close and print so far
    opened,        \* every path jsonlines.open was called with, in order
    summary        \* the count printed by the last line, Null before

vars ==
    <<exchanger, validator, splitter, raw_data, rows_counter, pulled, pipe,
      pc, calls, opened, summary>>

\* pipelines = [exchanger, validator, splitter]
pipelines == <<"exchanger", "validator", "splitter">>

(* --------------------------- input records ----------------------------- *)
\* Marks a key the record does not hold.
Absent == [t |-> "absent"]

\* The dict holding the keys whose value is not Absent.
MkData(linkid, type, convvalue, convvalueunit, convusdvalue) ==
    LET all == (K_linkid :> linkid) @@ (K_type :> type)
               @@ (K_convvalue :> convvalue)
               @@ (K_convvalueunit :> convvalueunit)
               @@ (K_convusdvalue :> convusdvalue)
    IN [f \in {g \in DOMAIN all : all[g] # Absent} |-> all[f]]

\* Records without currency fields: linkid and type in every combination.
LinkTypeRecords ==
    {MkData(l, ty, Absent, Absent, Absent) :
        l \in {Absent, Str(GoodUuid), Str(BadUuid), Num(123)},
        ty \in {Absent, Str(Click), Str(View)}}
    \cup {MkData(Null, Str(Click), Absent, Absent, Absent),
          MkData(Str(<<>>), Str(Click), Absent, Absent, Absent),
          MkData(Str(NonHexUuid), Str(Click), Absent, Absent, Absent),
          MkData(Str(GoodUuid), Str(<<>>), Absent, Absent, Absent),
          MkData(Str(GoodUuid), Null, Absent, Absent, Absent)}

\* Records with currency fields.
CurrencyRecords ==
    {MkData(Str(GoodUuid), Str(Click), c[1], c[2], c[3]) :
        c \in {<<Num(2), Str(DKK), Absent>>,
               <<Num(2), Str(USD), Absent>>,
               <<Num(2), Str(XXX), Absent>>,
               <<Num(2), Absent, Absent>>,
               <<Num(0), Str(XXX), Absent>>,
               <<Null, Str(DKK), Absent>>,
               <<Absent, Str(DKK), Absent>>,
               <<Num(2), Str(DKK), Num(7)>>,
               <<Num(2), Str(JPY), Absent>>,
               <<Num(-3), Str(EUR), Absent>>}}
    \cup {MkData(Absent, Str(Click), Num(2), Str(DKK), Absent),
          MkData(Num(123), Str(Click), Num(2), Str(XXX), Absent)}

\* What one line of the input may parse to.
Records == LinkTypeRecords \cup CurrencyRecords

(* ------------------------------ dispatch ------------------------------- *)
\* pipe.process(data) for pipe = pipelines[i]: the exception raised, the
\* record and the processors afterwards, the paths opened.
Process(i, data, k) ==
    LET same == [raised |-> "none", data |-> data, exchanger |-> exchanger,
                 validator |-> validator, splitter |-> splitter,
                 opened |-> <<>>]
    IN CASE pipelines[i] = "exchanger" ->
              LET r == ExchangeProcessor_process(exchanger, data)
              IN [same EXCEPT !.raised = r.raised, !.data = r.data]
         [] pipelines[i] = "validator" ->
              LET r == ValidationProcessor_process(validator, data, k)
              IN [same EXCEPT !.raised = r.raised, !.validator = r.self]
         [] pipelines[i] = "splitter" ->
              LET r == SplittingProcessor_process(splitter, data, k)
              IN [same EXCEPT !.raised = r.raised, !.splitter = r.self,
                              !.opened = r.opened]

\* One entry of the trace.
Event(op, i, k, before, after, raised) ==
    [op |-> op, stage |-> i, rec |-> k, before |-> before, after |-> after,
     raised |-> raised]

(* ------------------------------ __main__ ------------------------------- *)
\* The state when the while loop is entered: the three processors built
\* with their defaults, rows_counter = 0.
Init ==
    /\ exchanger = ExchangeProcessor(USD)
    /\ validator = ValidationProcessor(DEFAULT_ERRORS_OUTPUT)
    /\ splitter = SplittingProcessor(DEFAULT_OUTPUT_PATH, TRUE)
    /\ raw_data = <<>>
    /\ rows_counter = 0
    /\ pulled = 0
    /\ pipe = 1
    /\ pc = "next"
    /\ calls = <<>>
    /\ opened = <<DEFAULT_ERRORS_OUTPUT>>
    /\ summary = Null

\* raw_data = stream.__next__() yields a record.
NextRecord(r) ==
    /\ pc = "next"
    /\ pulled < MaxRecords
    /\ raw_data' = r
    /\ pulled' = pulled + 1
    /\ pipe' = 1
    /\ pc' = "process"
    /\ calls' = Append(calls, Event("pull", 0, pulled + 1, r, r, "none"))
    /\ UNCHANGED <<exchanger, validator, splitter, rows_counter, opened, summary>>

\* stream.__next__() raises StopIteration: the except branch is entered.
StopIteration ==
    /\ pc = "next"
    /\ pipe' = 1
    /\ pc' = "close"
    /\ UNCHANGED <<exchanger, validator, splitter, raw_data, rows_counter,
                   pulled, calls, opened, summary>>

\* AfterProcess with every exception swallowed (a bare except: pass).
AfterProcess_Swallow(raised, i) ==
    IF i < Len(pipelines)
    THEN [pc |-> "process", pipe |-> i + 1, counted |-> 0]
    ELSE [pc |-> "next", pipe |-> i, counted |-> 1]

\* AfterProcess with every exception taken for the end of the stream
\* (except Exception in place of except StopIteration).
AfterProcess_CloseOnError(raised, i) ==
    IF raised # "none"
    THEN [pc |-> "close", pipe |-> 1, counted |-> 0]
    ELSE IF i < Len(pipelines)
         THEN [pc |-> "process", pipe |-> i + 1, counted |-> 0]
         ELSE [pc |-> "next", pipe |-> i, counted |-> 1]

\* AfterProcess with rows_counter += 1 inside the for loop.
AfterProcess_CountPerStage(raised, i) ==
    IF raised # "none"
    THEN [pc |-> "aborted", pipe |-> i, counted |-> 0]
    ELSE IF i < Len(pipelines)
         THEN [pc |-> "process", pipe |-> i + 1, counted |-> 1]
         ELSE [pc |-> "next", pipe |-> i, counted |-> 1]

\* Where the loop goes once pipelines[i].process has returned or raised:
\* an exception other than StopIteration leaves the loop and the program;
\* after the last pipe, rows_counter += 1 and the loop starts over.
AfterProcess(raised, i) ==
    IF raised # "none"
    THEN [pc |-> "aborted", pipe |-> i, counted |-> 0]
    ELSE IF i < Len(pipelines)
         THEN [pc |-> "process", pipe |-> i + 1, counted |-> 0]
         ELSE [pc |-> "next", pipe |-> i, counted |-> 1]

\* pipe.process(raw_data) for the current pipe of the for loop, followed,
\* after the last pipe, by rows_counter += 1.
ProcessStep ==
    /\ pc = "process"
    /\ LET o == Process(pipe, raw_data, pulled)
           c == AfterProcess(o.raised, pipe)
       IN /\ raw_data' = o.data
          /\ exchanger' = o.exchanger
          /\ validator' = o.validator
          /\ splitter' = o.splitter
          /\ opened' = opened \o o.opened
          /\ calls' = Append(calls, Event("process", pipe, pulled, raw_data,
                                          o.data, o.raised))
          /\ pc' = c.pc
          /\ pipe' = c.pipe
          /\ rows_counter' = rows_counter + c.counted
    /\ UNCHANGED <<pulled, summary>>

\* pipe.close() for pipe = pipelines[i]
Close(i) ==
    /\ exchanger' = exchanger
    /\ validator' = IF pipelines[i] = "validator"
                    THEN ValidationProcessor_close(validator) ELSE validator
    /\ splitter' = IF pipelines[i] = "splitter"
                   THEN SplittingProcessor_close(splitter) ELSE splitter

\* One turn of the for loop of the except branch; break after the last.
CloseStep ==
    /\ pc = "close"
    /\ Close(pipe)
    /\ calls' = Append(calls, Event("close", pipe, 0, <<>>, <<>>, "none"))
    /\ IF pipe < Len(pipelines)
       THEN pc' = "close" /\ pipe' = pipe + 1
       ELSE pc' = "summary" /\ pipe' = pipe
    /\ UNCHANGED <<raw_data, rows_counter, pulled, opened, summary>>

\* print("Processed {} rows in {} secs")
PrintSummary ==
    /\ pc = "summary"
    /\ summary' = Num(rows_counter)
    /\ pc' = "done"
    /\ calls' = Append(calls, Event("print", 0, 0, <<>>, <<>>, "none"))
    /\ UNCHANGED <<exchanger, validator, splitter, raw_data, rows_counter,
                   pulled, pipe, opened>>

Next ==
    \/ \E r \in Records : NextRecord(r)
    \/ StopIteration
    \/ ProcessStep
    \/ CloseStep
    \/ PrintSummary

Spec == Init /\ [][Next]_vars

(* -------------------------- test_processors.py ------------------------- *)
\* What the tests build: one processor with its parameters, the others not
\* built.  <<place in pipelines, currency, strict_uuid>>.
TestSetups ==
    {<<1, USD, TRUE>>, <<1, DKK, TRUE>>, <<2, USD, TRUE>>,
     <<3, USD, TRUE>>, <<3, USD, FALSE>>}

\* proc = ExchangeProcessor(currency) / ValidationProcessor() /
\* SplittingProcessor(strict_uuid=...)
InitStages ==
    \E setup \in TestSetups :
        /\ pipe = setup[1]
        /\ exchanger = IF pipelines[setup[1]] = "exchanger"
                       THEN ExchangeProcessor(setup[2]) ELSE Null
        /\ validator = IF pipelines[setup[1]] = "validator"
                       THEN ValidationProcessor(DEFAULT_ERRORS_OUTPUT) ELSE Null
        /\ splitter = IF pipelines[setup[1]] = "splitter"
                      THEN SplittingProcessor(DEFAULT_OUTPUT_PATH, setup[3])
                      ELSE Null
        /\ opened = IF pipelines[setup[1]] = "validator"
                    THEN <<DEFAULT_ERRORS_OUTPUT>> ELSE <<>>
        /\ raw_data = <<>>
        /\ rows_counter = 0
        /\ pulled = 0
        /\ pc = "test"
        /\ calls = <<>>
        /\ summary = Null

\* The records the tests of pipelines[i] pass to process: the currency
\* stage reads the currency fields only, the other two linkid and type only.
TestRecords(i) ==
    IF pipelines[i] = "exchanger"
    THEN CurrencyRecords \cup {MkData(Absent, Absent, Absent, Absent, Absent)}
    ELSE LinkTypeRecords
         \cup {MkData(Str(GoodUuid), Str(Click), Num(2), Str(DKK), Absent)}

\* data = {...}; proc.process(data).  An exception ends the test.
TestProcess(r) ==
    /\ pc = "test"
    /\ pulled < MaxCalls
    /\ LET o == Process(pipe, r, pulled + 1)
       IN /\ raw_data' = o.data
          /\ exchanger' = o.exchanger
          /\ validator' = o.validator
          /\ splitter' = o.splitter
          /\ opened' = opened \o o.opened
          /\ calls' = Append(calls, Event("process", pipe, pulled + 1, r,
                                          o.data, o.raised))
          /\ pc' = IF o.raised # "none" THEN "failed" ELSE "test"
    /\ pulled' = pulled + 1
    /\ UNCHANGED <<rows_counter, pipe, summary>>

\* proc.close()
TestClose ==
    /\ pc = "test"
    /\ Close(pipe)
    /\ calls' = Append(calls, Event("close", pipe, 0, <<>>, <<>>, "none"))
    /\ pc' = "closed"
    /\ UNCHANGED <<raw_data, rows_counter, pulled, pipe, opened, summary>>

NextStages ==
    \/ \E r \in TestRecords(pipe) : TestProcess(r)
    \/ TestClose

SpecStages == InitStages /\ [][NextStages]_vars

(* ------------------------- reading the trace --------------------------- *)
\* The process calls made on record k, in the order they were made.
ProcessCalls(k) ==
    SelectSeq(calls, LAMBDA e : e.op = "process" /\ e.rec = k)

\* Places in the trace of the process calls on record k.
ProcessPlaces(k) ==
    {i \in 1..Len(calls) : calls[i].op = "process" /\ calls[i].rec = k}

\* Place in the trace where record k was pulled.
PullPlace(k) ==
    CHOOSE i \in 1..Len(calls) : calls[i].op = "pull" /\ calls[i].rec = k

\* The close calls made so far, in order.
CloseCalls == SelectSeq(calls, LAMBDA e : e.op = "close")

\* Record k went through every stage of the pipeline without an exception.
FullyProcessed(k) ==
    /\ Len(ProcessCalls(k)) = Len(pipelines)
    /\ \A j \in 1..Len(pipelines) : ProcessCalls(k)[j].raised = "none"

\* Record k has a line in writer w.
WrittenTo(w, k) == \E j \in 1..Len(w.lines) : w.lines[j].rec = k

\* Record k has a line in the dead-letter sink.
InDeadLetters(k) == WrittenTo(validator.errors_logger, k)

\* Record k has a line in some per-type sink.
InTypeSink(k) ==
    \E ty \in DOMAIN splitter._cached_writers :
        WrittenTo(splitter._cached_writers[ty], k)

\* Every writer the processors hold.
Writers ==
    (IF validator = Null THEN {} ELSE {validator.errors_logger})
    \cup (IF splitter = Null THEN {}
          ELSE {splitter._cached_writers[ty] :
                    ty \in DOMAIN splitter._cached_writers})

\* The linkid is present, truthy and a well-formed UUID text.
HasValidLinkid(data) ==
    /\ Truthy(Get(data, K_linkid))
    /\ data[K_linkid].t = "str"
    /\ UUID(data[K_linkid].s).raised = "none"

(* ------------------------------- C1 ------------------------------------ *)
\* C1 as stated: every record pulled is processed by every stage exactly
\* once and in pipeline order; read once the run is no longer inside the
\* for loop over the stages.
C1_EveryStageOnEveryRecord ==
    pc # "process" =>
        \A k \in 1..pulled :
            /\ Len(ProcessCalls(k)) = Len(pipelines)
            /\ \A j \in 1..Len(pipelines) : ProcessCalls(k)[j].stage = j

\* C1, amended: the process calls on a record are made in pipeline order,
\* each stage at most once, each on the record as the stage before left it,
\* up to and including the first stage whose process raises (all stages when
\* none raises); all of them lie after the pull of that record and before
\* the pull of the next, and the next record is pulled only once the last
\* stage has returned on this one.
C1_StagesInOrderUntilRaise ==
    \A k \in 1..pulled :
        LET pcalls == ProcessCalls(k)
            n == Len(pcalls)
        IN /\ n <= Len(pipelines)
           /\ \A j \in 1..n : pcalls[j].stage = j
           /\ \A j \in 1..n :
                 pcalls[j].before =
                    IF j = 1 THEN calls[PullPlace(k)].before
                    ELSE pcalls[j - 1].after
           /\ \A j \in 1..(n - 1) : pcalls[j].raised = "none"
           /\ \A i \in ProcessPlaces(k) :
                 /\ PullPlace(k) < i
                 /\ k < pulled => i < PullPlace(k + 1)
           /\ k < pulled => FullyProcessed(k)
           /\ ~FullyProcessed(k) =>
                 \/ pc = "process" /\ pipe = n + 1
                 \/ pc = "aborted" /\ n >= 1 /\ pcalls[n].raised # "none"

\* Two records pulled, the first through all stages, the second stopped by
\* an exception in the second stage.
C1_Witness ==
    /\ pulled = 2
    /\ pc = "aborted"
    /\ FullyProcessed(1)
    /\ Len(ProcessCalls(2)) = 2

(* ------------------------------- C2 ------------------------------------ *)
\* C2: in a run without a failure, once the source is exhausted close is
\* called on every stage exactly once and in pipeline order, after the last
\* process call, and the run then prints and stops; every sink opened in the
\* run (the dead-letter sink and each cached per-type sink) is closed exactly
\* once, and none is closed before.
C2_CloseOnceInOrder ==
    /\ Len(CloseCalls) <= Len(pipelines)
    /\ \A j \in 1..Len(CloseCalls) : CloseCalls[j].stage = j
    /\ \A i, j \in 1..Len(calls) :
          calls[i].op = "close" /\ calls[j].op \in {"process", "pull"} => j < i
    /\ \A w \in Writers : w.closes <= 1
    /\ Len(CloseCalls) = 0 => \A w \in Writers : w.closes = 0
    /\ Cardinality(Writers) = Len(opened)
    /\ pc \in {"summary", "done"} =>
          /\ Len(CloseCalls) = Len(pipelines)
          /\ \A w \in Writers : w.closes = 1
    /\ pc = "done" =>
          /\ calls[Len(calls)].op = "print"
          /\ \A j \in 1..Len(pipelines) :
                calls[Len(calls) - j].op = "close"

\* A finished run that wrote to the dead-letter sink and to a per-type sink.
C2_Witness ==
    /\ pc = "done"
    /\ Len(validator.errors_logger.lines) >= 1
    /\ \E ty \in DOMAIN splitter._cached_writers :
          Len(splitter._cached_writers[ty].lines) >= 1

(* ------------------------------- C3 ------------------------------------ *)
\* C3: when a stage's process raises, the run is over at once: the raising
\* call is the last thing the run did (no later stage on that record, no
\* further pull, no close, no summary), the counter does not count the
\* record, and every opened sink is still unclosed.
C3_RaiseAbortsRun ==
    \A i \in 1..Len(calls) :
        calls[i].op = "process" /\ calls[i].raised # "none" =>
            /\ i = Len(calls)
            /\ pc = "aborted"
            /\ rows_counter = calls[i].rec - 1
            /\ pulled = calls[i].rec
            /\ Len(CloseCalls) = 0
            /\ \A w \in Writers : w.closes = 0
            /\ summary = Null

\* The currency stage raised on the second record (its convvalueunit is not
\* in the rate table, or is missing), with a per-type sink already open.
C3_Witness ==
    /\ pc = "aborted"
    /\ pulled = 2
    /\ calls[Len(calls)].stage = 1
    /\ calls[Len(calls)].raised = "KeyError"
    /\ Len(opened) = 2

(* ------------------------------- C9 ------------------------------------ *)
\* C9: the counter always equals the number of records that went through
\* every stage, and a run that ends normally after N records reports N.
C9_CountEqualsRecords ==
    /\ rows_counter = Cardinality({k \in 1..pulled : FullyProcessed(k)})
    /\ pc = "done" => summary = Num(pulled)
    /\ pc # "done" => summary = Null

\* A finished run of two records, one dead-lettered and one written to no
\* sink at all.
C9_Witness ==
    /\ pc = "done"
    /\ summary = Num(2)
    /\ \E k \in 1..2 : InDeadLetters(k)
    /\ \E k \in 1..2 : ~InDeadLetters(k) /\ ~InTypeSink(k)

(* ------------------------------- C10 ----------------------------------- *)
\* C10: of the records the validation stage was called on and the run is
\* through with, none is in both the dead-letter sink and a per-type sink;
\* one with a valid linkid and a truthy type is only in its type sink, one
\* with an invalid or missing linkid only in the dead-letter sink, one with
\* a valid linkid and no type in no sink.
C10_OneSinkPerRecord ==
    \A k \in 1..pulled :
        (Len(ProcessCalls(k)) >= 2 /\ pc # "process") =>
            LET data == ProcessCalls(k)[2].before
            IN /\ ~(InDeadLetters(k) /\ InTypeSink(k))
               /\ HasValidLinkid(data) /\ Truthy(Get(data, K_type)) =>
                     InTypeSink(k) /\ ~InDeadLetters(k)
               /\ ~HasValidLinkid(data) =>
                     InDeadLetters(k) /\ ~InTypeSink(k)
               /\ HasValidLinkid(data) /\ ~Truthy(Get(data, K_type)) =>
                     ~InDeadLetters(k) /\ ~InTypeSink(k)

(* ------------------------------- C4 ------------------------------------ *)
\* C4: ValidationProcessor.process appends the record, as it is, to the
\* dead-letter sink exactly when its linkid is missing, falsy or no
\* well-formed UUID; the record is never modified and no other sink is opened.
C4_DeadLetterIffInvalid ==
    \A i \in 1..Len(calls) :
        (calls[i].op = "process" /\ pipelines[calls[i].stage] = "validator") =>
            /\ InDeadLetters(calls[i].rec) <=> ~HasValidLinkid(calls[i].before)
            /\ \A j \in 1..Len(validator.errors_logger.lines) :
                  validator.errors_logger.lines[j].rec = calls[i].rec =>
                      validator.errors_logger.lines[j].line = calls[i].before
            /\ calls[i].after = calls[i].before
            /\ opened = <<DEFAULT_ERRORS_OUTPUT>>

(* ------------------------------- C5 ------------------------------------ *)
\* './<type>.json'
TypePath(ty) == <<".", "/">> \o ty.s \o <<".", "j", "s", "o", "n">>

\* The splitting stage has to write the record: its type is truthy and
\* either strict_uuid is off or its linkid is a well-formed UUID.
ShouldSplit(data) ==
    /\ Truthy(Get(data, K_type))
    /\ ~splitter.strict_uuid \/ HasValidLinkid(data)

\* C5: after any sequence of SplittingProcessor.process calls, a record has
\* a line in a per-type sink exactly when its type is truthy and (strict_uuid
\* is off or its linkid is a well-formed UUID), and then only in the sink of
\* its own type; the cache holds exactly the types of the records written,
\* and each of their paths was opened exactly once.
C5_SplitIffAllowed ==
    splitter # Null /\ validator = Null =>
        LET cache == splitter._cached_writers
            done == {i \in 1..Len(calls) : calls[i].op = "process"}
        IN /\ \A i \in done :
                 LET data == calls[i].before
                     k == calls[i].rec
                 IN /\ InTypeSink(k) <=> ShouldSplit(data)
                    /\ calls[i].after = data
                    /\ ShouldSplit(data) =>
                          /\ data[K_type] \in DOMAIN cache
                          /\ \A ty \in DOMAIN cache :
                                WrittenTo(cache[ty], k) <=> ty = data[K_type]
                          /\ \E j \in 1..Len(cache[data[K_type]].lines) :
                                cache[data[K_type]].lines[j] =
                                    [rec |-> k, line |-> data]
           /\ DOMAIN cache =
                 {calls[i].before[K_type] :
                     i \in {j \in done : ShouldSplit(calls[j].before)}}
           /\ \A ty \in DOMAIN cache : cache[ty].path = TypePath(ty)
           /\ Len(opened) = Cardinality(DOMAIN cache)
           /\ {opened[j] : j \in 1..Len(opened)} =
                 {TypePath(ty) : ty \in DOMAIN cache}

\* With strict_uuid off, two records of type click, one of them with the
\* malformed linkid of the tests: both in the one click sink, opened once.
C5_Witness ==
    /\ splitter # Null /\ validator = Null
    /\ ~splitter.strict_uuid
    /\ DOMAIN splitter._cached_writers = {Str(Click)}
    /\ Len(splitter._cached_writers[Str(Click)].lines) = 2
    /\ \E i \in 1..Len(calls) : Get(calls[i].before, K_linkid) = Str(BadUuid)
    /\ opened = <<TypePath(Str(Click))>>

(* ------------------------------- C6 ------------------------------------ *)
\* 'convusdvalue', 'convdkkvalue', written out.
ExpectedKey(currency) ==
    CASE currency = USD -> <<"c", "o", "n", "v", "u", "s", "d", "v", "a", "l", "u", "e">>
      [] currency = DKK -> <<"c", "o", "n", "v", "d", "k", "k", "v", "a", "l", "u", "e">>

\* The process calls on the currency stage that have to convert: convvalue
\* truthy, convvalueunit another currency than the target and in the table.
Converting ==
    {i \in 1..Len(calls) :
        /\ calls[i].op = "process"
        /\ pipelines[calls[i].stage] = "exchanger"
        /\ Truthy(Get(calls[i].before, K_convvalue))
        /\ Get(calls[i].before, K_convvalueunit).t = "str"
        /\ Get(calls[i].before, K_convvalueunit).s # exchanger.default_currency
        /\ Get(calls[i].before, K_convvalueunit).s \in DOMAIN exchanger.ex_rates}

\* C6 as stated: every original field is unchanged and exactly one field,
\* conv<currency>value, is set, to rate * convvalue.
C6_AddsOneFieldKeepsAll ==
    \A i \in Converting :
        LET before == calls[i].before
            after == calls[i].after
            key == ExpectedKey(exchanger.default_currency)
        IN /\ calls[i].raised = "none"
           /\ DOMAIN after = DOMAIN before \cup {key}
           /\ \A f \in DOMAIN before : after[f] = before[f]
           /\ after[key] = Num(exchanger.ex_rates[before[K_convvalueunit].s]
                               * before[K_convvalue].n)

\* C6, amended: every original field other than conv<currency>value is
\* unchanged, and conv<currency>value is set to rate * convvalue, replacing
\* the value the record held under that name if it held one.
C6_SetsConvertedField ==
    \A i \in Converting :
        LET before == calls[i].before
            after == calls[i].after
            key == ExpectedKey(exchanger.default_currency)
        IN /\ calls[i].raised = "none"
           /\ DOMAIN after = DOMAIN before \cup {key}
           /\ \A f \in DOMAIN before \ {key} : after[f] = before[f]
           /\ after[key] = Num(exchanger.ex_rates[before[K_convvalueunit].s]
                               * before[K_convvalue].n)

\* Target DKK, a record in JPY (test_ExchangeProcessor_dkk): convdkkvalue is
\* added; and a record in USD converted as well.
C6_Witness ==
    /\ exchanger # Null
    /\ exchanger.default_currency = DKK
    /\ \E i \in Converting :
          /\ calls[i].before[K_convvalueunit] = Str(JPY)
          /\ ExpectedKey(DKK) \notin DOMAIN calls[i].before
          /\ calls[i].after[ExpectedKey(DKK)] = Num(182)
    /\ \E i \in Converting : calls[i].before[K_convvalueunit] = Str(USD)

(* ------------------------------- C7 ------------------------------------ *)
\* C7: ExchangeProcessor.process leaves the record as it is and raises
\* nothing when convvalue is absent, null or falsy, and when convvalueunit is
\* the target currency, whether or not convvalueunit is in the rate table.
C7_NoConversionNoChange ==
    \A i \in 1..Len(calls) :
        (/\ calls[i].op = "process"
         /\ pipelines[calls[i].stage] = "exchanger"
         /\ \/ ~Truthy(Get(calls[i].before, K_convvalue))
            \/ Get(calls[i].before, K_convvalueunit)
                  = Str(exchanger.default_currency)) =>
            /\ calls[i].raised = "none"
            /\ calls[i].after = calls[i].before

\* One call with convvalue 0 and a unit the table does not hold, one with a
\* truthy convvalue already in the target currency.
C7_Witness ==
    /\ exchanger # Null /\ validator = Null
    /\ \E i \in 1..Len(calls) :
          /\ Get(calls[i].before, K_convvalue) = Num(0)
          /\ Get(calls[i].before, K_convvalueunit) = Str(XXX)
    /\ \E i \in 1..Len(calls) :
          /\ Truthy(Get(calls[i].before, K_convvalue))
          /\ Get(calls[i].before, K_convvalueunit)
                = Str(exchanger.default_currency)

(* ------------------------------- C8 ------------------------------------ *)
\* C8: is_valid_uuid raises for no truthy linkid a record can carry, so no
\* process call of the validation or the splitting stage raises.
C8_LinkidNeverRaises ==
    \A i \in 1..Len(calls) :
        (calls[i].op = "process"
         /\ pipelines[calls[i].stage] \in {"validator", "splitter"}) =>
            /\ calls[i].raised = "none"
            /\ Truthy(Get(calls[i].before, K_linkid)) =>
                  is_valid_uuid(calls[i].before[K_linkid]).raised = "none"

=============================================================================
